---- MODULE Spec2Model ----
(***************************************************************************)
(* A model of the user-operation core of the bundler:                      *)
(*   src/src/types/user_operation.rs   (UserOperation, pack,               *)
(*       pack_for_signature, hash, Compress/Decompress, the conversion     *)
(*       from UserOperationPartial, parse_from_input_data)                 *)
(*   src/crates/uopool/src/validate/sanity/verification_gas.rs             *)
(*       (VerificationGas::check_user_operation)                           *)
(*                                                                         *)
(* Byte strings are sequences of naturals below 256.  Addresses and U256   *)
(* values are naturals; the model keeps them below 2^31 and encodes them   *)
(* at their real width (20 and 32 bytes, big-endian).                      *)
(***************************************************************************)
EXTENDS Integers, Sequences, FiniteSets, TLC

VARIABLES
    uo,                    \* the operation the calls are made on
    other,                 \* a second operation, for claims relating two calls
    env,                   \* [entry_point, chain_id] passed to hash with uo
    env2,                  \* [entry_point, chain_id] passed to hash with other
    max_verification_gas,  \* VerificationGas.max_verification_gas
    helper,                \* the SanityHelper (chain state) handed to the check
    partial,               \* a UserOperationPartial to convert
    call,                  \* the entry-point call a transaction made
    data,                  \* the transaction's input bytes / the bytes kept in the table
    ret,                   \* the last call made on uo / partial / data
    ret2                   \* the last call made on other

vars == <<uo, other, env, env2, max_verification_gas, helper, partial, call, data, ret, ret2>>

-----------------------------------------------------------------------------
(* Bytes and words *)

\* One ABI word: 32 bytes (the 32 of packed.truncate(packed.len() - 32)).
WORD == 32

\* The width of an Address in bytes (ethers H160).
ADDRESS_BYTES == 20

Zeros(n) == [i \in 1..n |-> 0]

\* 256^k for the bytes an operand of the model can fill (values stay below 2^31)
Pow256 == <<1, 256, 65536, 16777216>>

\* the byte of weight 256^k in n
ByteAt(n, k) == IF k >= Len(Pow256) THEN 0 ELSE (n \div Pow256[k + 1]) % 256

\* n as len big-endian bytes
ToBE(n, len) == [i \in 1..len |-> ByteAt(n, len - i)]

\* a big-endian byte string whose value is below 2^31
IsSmall(b) ==
    \A i \in 1..Len(b) :
        /\ i <= Len(b) - Len(Pow256) => b[i] = 0
        /\ i = Len(b) - Len(Pow256) + 1 => b[i] < 128

RECURSIVE LowBytes(_, _)
\* the number the last k bytes of b stand for
LowBytes(b, k) ==
    IF k = 0 \/ k > Len(b) THEN 0
    ELSE b[Len(b) - k + 1] * Pow256[k] + LowBytes(b, k - 1)

\* the number a big-endian byte string stands for; a number of 2^31 or more, which
\* no operand of the model holds, is kept as its bytes
FromBE(b) == IF IsSmall(b) THEN LowBytes(b, Len(Pow256)) ELSE [big |-> b]

RECURSIVE Concat(_)
\* [a, b, c].concat()
Concat(ss) == IF Len(ss) = 0 THEN <<>> ELSE Head(ss) \o Concat(Tail(ss))

AllZero(b) == \A i \in 1..Len(b) : b[i] = 0

-----------------------------------------------------------------------------
(* The ABI codec behind #[derive(EthAbiCodec, EthAbiType)] *)

\* U256::encode / Token::Uint: one word, big-endian
encode_u256(n) == ToBE(n, WORD)

\* Address::encode / Token::Address: one word, the 20 bytes right-aligned
encode_address(a) == Zeros(WORD - ADDRESS_BYTES) \o ToBE(a, ADDRESS_BYTES)

\* zero bytes that fill a byte string of length n up to whole words
PadLen(n) == (WORD - (n % WORD)) % WORD

\* Token::Bytes in the tail: the length word, the data, zero padding
encode_bytes(b) == encode_u256(Len(b)) \o b \o Zeros(PadLen(Len(b)))

IsDynamic(t) == t.type = "bytes"

TailOf(t) == IF IsDynamic(t) THEN encode_bytes(t.value) ELSE <<>>

RECURSIVE TailsBefore(_, _)
\* the length of the tails of tokens 1..i-1
TailsBefore(tokens, i) ==
    IF i <= 1 THEN 0 ELSE TailsBefore(tokens, i - 1) + Len(TailOf(tokens[i - 1]))

HeadOf(tokens, i) ==
    CASE tokens[i].type = "address" -> encode_address(tokens[i].value)
      [] tokens[i].type = "uint"    -> encode_u256(tokens[i].value)
      [] tokens[i].type = "bytes"   ->
            encode_u256(WORD * Len(tokens) + TailsBefore(tokens, i))

\* ethers::abi::encode(&tokens): the heads, then the tails in field order
abi_encode(tokens) ==
    Concat([i \in 1..Len(tokens) |-> HeadOf(tokens, i)])
        \o Concat([i \in 1..Len(tokens) |-> TailOf(tokens[i])])

\* the fields of UserOperation in declared order, with their ABI types
FieldTypes ==
    << [name |-> "sender",                   type |-> "address"],
       [name |-> "nonce",                    type |-> "uint"],
       [name |-> "init_code",                type |-> "bytes"],
       [name |-> "call_data",                type |-> "bytes"],
       [name |-> "call_gas_limit",           type |-> "uint"],
       [name |-> "verification_gas_limit",   type |-> "uint"],
       [name |-> "pre_verification_gas",     type |-> "uint"],
       [name |-> "max_fee_per_gas",          type |-> "uint"],
       [name |-> "max_priority_fee_per_gas", type |-> "uint"],
       [name |-> "paymaster_and_data",       type |-> "bytes"],
       [name |-> "signature",                type |-> "bytes"] >>

FieldNames == {FieldTypes[i].name : i \in 1..Len(FieldTypes)}

\* Tokenize::into_tokens of a UserOperation: the tuple's fields, flattened
into_tokens(op) ==
    [i \in 1..Len(FieldTypes) |->
        [type |-> FieldTypes[i].type, value |-> op[FieldTypes[i].name]]]

\* AbiEncode::encode of a UserOperation
encode(op) == abi_encode(into_tokens(op))

\* the bytes data[from+1 .. from+len], when they are all there
HasBytes(bytes, from, len) == from >= 0 /\ len >= 0 /\ from + len <= Len(bytes)

Peek(bytes, from, len) == SubSeq(bytes, from + 1, from + len)

\* ethabi's as_usize of a word: the high 28 bytes must be zero; a usize of 2^31 or
\* more is past the end of any input of the model
UsizeOk(word) == IsSmall(word)

\* decode_param reading a byte string from its length word on, not after it
decode_param_from_length_word(type, bytes, i) ==
    LET slot == WORD * (i - 1) IN
    IF ~HasBytes(bytes, slot, WORD) THEN [ok |-> FALSE]
    ELSE LET word == Peek(bytes, slot, WORD) IN
      CASE type = "address" ->
             [ok |-> TRUE, value |-> FromBE(SubSeq(word, WORD - ADDRESS_BYTES + 1, WORD))]
        [] type = "uint" ->
             [ok |-> TRUE, value |-> FromBE(word)]
        [] type = "bytes" ->
             IF ~UsizeOk(word) THEN [ok |-> FALSE]
             ELSE LET off == FromBE(word) IN
               IF ~HasBytes(bytes, off, WORD) THEN [ok |-> FALSE]
               ELSE LET lenword == Peek(bytes, off, WORD) IN
                 IF ~UsizeOk(lenword) THEN [ok |-> FALSE]
                 ELSE LET len == FromBE(lenword) IN
                   IF ~HasBytes(bytes, off, len) THEN [ok |-> FALSE]
                   ELSE [ok |-> TRUE, value |-> Peek(bytes, off, len)]

\* ethabi decode_param for the i-th head slot; [ok |-> FALSE] on InvalidData
decode_param(type, bytes, i) ==
    LET slot == WORD * (i - 1) IN
    IF ~HasBytes(bytes, slot, WORD) THEN [ok |-> FALSE]
    ELSE LET word == Peek(bytes, slot, WORD) IN
      CASE type = "address" ->
             [ok |-> TRUE, value |-> FromBE(SubSeq(word, WORD - ADDRESS_BYTES + 1, WORD))]
        [] type = "uint" ->
             [ok |-> TRUE, value |-> FromBE(word)]
        [] type = "bytes" ->
             IF ~UsizeOk(word) THEN [ok |-> FALSE]
             ELSE LET off == FromBE(word) IN
               IF ~HasBytes(bytes, off, WORD) THEN [ok |-> FALSE]
               ELSE LET lenword == Peek(bytes, off, WORD) IN
                 IF ~UsizeOk(lenword) THEN [ok |-> FALSE]
                 ELSE LET len == FromBE(lenword) IN
                   IF ~HasBytes(bytes, off + WORD, len) THEN [ok |-> FALSE]
                   ELSE [ok |-> TRUE, value |-> Peek(bytes, off + WORD, len)]

\* Tokenizable::from_token: the decoded tuple back into a UserOperation
from_tokens(params) ==
    [f \in FieldNames |->
        params[CHOOSE i \in 1..Len(FieldTypes) : FieldTypes[i].name = f].value]

\* AbiDecode::decode of a UserOperation: Ok(op) or Err
decode(bytes) ==
    LET params == [i \in 1..Len(FieldTypes) |-> decode_param(FieldTypes[i].type, bytes, i)] IN
    IF \A i \in 1..Len(FieldTypes) : params[i].ok
    THEN [ok |-> TRUE, value |-> from_tokens(params)]
    ELSE [ok |-> FALSE, err |-> "AbiError"]

-----------------------------------------------------------------------------
(* UserOperation *)

\* pack that leaves the signature's bytes out, as pack_for_signature does
pack_blank_signature(op) == encode([op EXCEPT !.signature = <<>>])

\* UserOperation::pack
pack(op) == encode(op)

\* pack_for_signature that leaves the signature in
pack_for_signature_keeps_signature(op) ==
    LET packed == encode(op)
    IN  SubSeq(packed, 1, Len(packed) - WORD)

\* pack_for_signature without the truncate
pack_for_signature_no_truncate(op) == encode([op EXCEPT !.signature = <<>>])

\* UserOperation::pack_for_signature
pack_for_signature(op) ==
    LET packed == encode([op EXCEPT !.signature = <<>>])
    IN  SubSeq(packed, 1, Len(packed) - WORD)

\* keccak256, collision-free: the digest is named by its preimage
keccak256(bytes) == [keccak |-> bytes]

\* hash that leaves the chain id out of the preimage
hash_without_chain_id(op, entry_point, chain_id) ==
    keccak256(Concat(<< <<keccak256(pack_for_signature(op))>>,
                        encode_address(entry_point) >>))

\* n as big-endian bytes without leading zero bytes
Unpadded(n) ==
    LET b == ToBE(n, Len(Pow256))
        lead == Cardinality({i \in 1..Len(b) : \A j \in 1..i : b[j] = 0})
    IN  SubSeq(b, lead + 1, Len(b))

\* hash that appends the address and the chain id at their shortest, not as words
hash_unpadded(op, entry_point, chain_id) ==
    keccak256(Concat(<< <<keccak256(pack_for_signature(op))>>,
                        Unpadded(entry_point),
                        Unpadded(chain_id) >>))

\* UserOperation::hash; the inner digest stands for its 32 bytes
hash(op, entry_point, chain_id) ==
    keccak256(Concat(<< <<keccak256(pack_for_signature(op))>>,
                        encode_address(entry_point),
                        encode_u256(chain_id) >>))

\* packed.len() - 32 in pack_for_signature, as an integer: below zero where the
\* subtraction of the two usize underflows
truncated_len(op) == Len(encode([op EXCEPT !.signature = <<>>])) - WORD

\* Compress::compress
compress(op) == pack(op)

\* Decompress::decompress
decompress(value) ==
    LET r == decode(value) IN
    IF r.ok THEN r ELSE [ok |-> FALSE, err |-> "DecodeError"]

-----------------------------------------------------------------------------
(* UserOperationHash *)

\* the width of an H256 in bytes
H256_BYTES == 32

\* the call does not return: the thread unwinds
Panic(msg) == [panic |-> msg]

IsPanic(r) == "panic" \in DOMAIN r

\* H256::from_slice: asserts that the slice is as long as the hash, then copies it
H256_from_slice(src) ==
    IF Len(src) = H256_BYTES THEN [h256 |-> src]
    ELSE Panic("assertion failed: src.len() == 32")

\* Decode::decode for UserOperationHash: Ok(H256::from_slice(value).into())
UserOperationHash_decode(value) ==
    LET h == H256_from_slice(value) IN
    IF IsPanic(h) THEN h ELSE [ok |-> TRUE, value |-> h]

\* Encode::encode for UserOperationHash: the 32 bytes
UserOperationHash_encode(h) == h.h256

-----------------------------------------------------------------------------
(* UserOperationPartial and its conversion *)

None == [some |-> FALSE]

Some(v) == [some |-> TRUE, value |-> v]

\* U256::from(10000000): the verification_gas_limit of a partial that has none
DEFAULT_VERIFICATION_GAS_LIMIT == 10000000

\* vec![1; 65]: the length of the signature of a partial that has none
DUMMY_SIGNATURE_LEN == 65

\* if let Some(x) = field { x } else { default }
UnwrapOr(field, default) == IF field.some THEN field.value ELSE default

\* the conversion taking a present zero or empty value for an absent one
from_partial_zero_is_absent(p) ==
    LET Get(field, zero, default) ==
            IF field.some /\ field.value # zero THEN field.value ELSE default IN
    [sender                   |-> p.sender,
     nonce                    |-> p.nonce,
     init_code                |-> Get(p.init_code, <<>>, <<>>),
     call_data                |-> Get(p.call_data, <<>>, <<>>),
     call_gas_limit           |-> Get(p.call_gas_limit, 0, 0),
     verification_gas_limit   |-> Get(p.verification_gas_limit, 0,
                                      DEFAULT_VERIFICATION_GAS_LIMIT),
     pre_verification_gas     |-> Get(p.pre_verification_gas, 0, 0),
     max_fee_per_gas          |-> Get(p.max_fee_per_gas, 0, 0),
     max_priority_fee_per_gas |-> Get(p.max_priority_fee_per_gas, 0, 0),
     paymaster_and_data       |-> Get(p.paymaster_and_data, <<>>, <<>>),
     signature                |-> Get(p.signature, <<>>,
                                      [i \in 1..DUMMY_SIGNATURE_LEN |-> 1])]

\* From<UserOperationPartial> for UserOperation
from_partial(p) ==
    [sender                   |-> p.sender,
     nonce                    |-> p.nonce,
     init_code                |-> UnwrapOr(p.init_code, <<>>),
     call_data                |-> UnwrapOr(p.call_data, <<>>),
     call_gas_limit           |-> UnwrapOr(p.call_gas_limit, 0),
     verification_gas_limit   |-> UnwrapOr(p.verification_gas_limit,
                                           DEFAULT_VERIFICATION_GAS_LIMIT),
     pre_verification_gas     |-> UnwrapOr(p.pre_verification_gas, 0),
     max_fee_per_gas          |-> UnwrapOr(p.max_fee_per_gas, 0),
     max_priority_fee_per_gas |-> UnwrapOr(p.max_priority_fee_per_gas, 0),
     paymaster_and_data       |-> UnwrapOr(p.paymaster_and_data, <<>>),
     signature                |-> UnwrapOr(p.signature,
                                           [i \in 1..DUMMY_SIGNATURE_LEN |-> 1])]

-----------------------------------------------------------------------------
(* The entry point's calls and parse_from_input_data *)

\* From<entry_point_api::UserOperation> for UserOperation with two gas limits swapped
from_entry_point_op_swapped(value) ==
    [sender                   |-> value.sender,
     nonce                    |-> value.nonce,
     init_code                |-> value.init_code,
     call_data                |-> value.call_data,
     call_gas_limit           |-> value.verification_gas_limit,
     verification_gas_limit   |-> value.call_gas_limit,
     pre_verification_gas     |-> value.pre_verification_gas,
     max_fee_per_gas          |-> value.max_fee_per_gas,
     max_priority_fee_per_gas |-> value.max_priority_fee_per_gas,
     paymaster_and_data       |-> value.paymaster_and_data,
     signature                |-> value.signature]

\* From<entry_point_api::UserOperation> for UserOperation
from_entry_point_op(value) ==
    [sender                   |-> value.sender,
     nonce                    |-> value.nonce,
     init_code                |-> value.init_code,
     call_data                |-> value.call_data,
     call_gas_limit           |-> value.call_gas_limit,
     verification_gas_limit   |-> value.verification_gas_limit,
     pre_verification_gas     |-> value.pre_verification_gas,
     max_fee_per_gas          |-> value.max_fee_per_gas,
     max_priority_fee_per_gas |-> value.max_priority_fee_per_gas,
     paymaster_and_data       |-> value.paymaster_and_data,
     signature                |-> value.signature]

\* the selector of handleOps(UserOperation[], address): 0x1fad948c
HANDLE_OPS_SELECTOR == <<31, 173, 148, 140>>

\* the selector of depositTo(address): 0xb760faf9
DEPOSIT_TO_SELECTOR == <<183, 96, 250, 249>>

SELECTOR_BYTES == 4

Drop(bytes, n) == SubSeq(bytes, n + 1, Len(bytes))

HasSelector(bytes, selector) ==
    Len(bytes) >= SELECTOR_BYTES /\ SubSeq(bytes, 1, SELECTOR_BYTES) = selector

\* the i-th element of an array of operations whose length word is at aoff
decode_element(body, aoff, i) ==
    LET area == aoff + WORD
        slot == area + WORD * (i - 1) IN
    IF ~HasBytes(body, slot, WORD) \/ ~UsizeOk(Peek(body, slot, WORD))
    THEN [ok |-> FALSE]
    ELSE LET at == area + FromBE(Peek(body, slot, WORD)) IN
         IF ~HasBytes(body, at, 0) THEN [ok |-> FALSE] ELSE decode(Drop(body, at))

\* HandleOpsCall::decode: the selector, then (UserOperation[] ops, address beneficiary)
decode_handle_ops(bytes) ==
    IF ~HasSelector(bytes, HANDLE_OPS_SELECTOR) THEN [ok |-> FALSE]
    ELSE
      LET body == Drop(bytes, SELECTOR_BYTES)
          beneficiary == decode_param("address", body, 2) IN
      IF ~HasBytes(body, 0, WORD) \/ ~UsizeOk(Peek(body, 0, WORD)) \/ ~beneficiary.ok
      THEN [ok |-> FALSE]
      ELSE
        LET aoff == FromBE(Peek(body, 0, WORD)) IN
        IF ~HasBytes(body, aoff, WORD) \/ ~UsizeOk(Peek(body, aoff, WORD))
        THEN [ok |-> FALSE]
        ELSE
          LET n == FromBE(Peek(body, aoff, WORD)) IN
          IF n > Len(body) THEN [ok |-> FALSE]
          ELSE
            LET elems == [i \in 1..n |-> decode_element(body, aoff, i)] IN
            IF \E i \in 1..n : ~elems[i].ok THEN [ok |-> FALSE]
            ELSE [ok |-> TRUE,
                  value |-> [variant |-> "HandleOps",
                             ops |-> [i \in 1..n |-> elems[i].value],
                             beneficiary |-> beneficiary.value]]

\* DepositToCall::decode: the selector, then (address account)
decode_deposit_to(bytes) ==
    IF ~HasSelector(bytes, DEPOSIT_TO_SELECTOR) THEN [ok |-> FALSE]
    ELSE LET account == decode_param("address", Drop(bytes, SELECTOR_BYTES), 1) IN
         IF ~account.ok THEN [ok |-> FALSE]
         ELSE [ok |-> TRUE, value |-> [variant |-> "DepositTo", account |-> account.value]]

\* EntryPointAPICalls::decode: the first variant that decodes, or Err
EntryPointAPICalls_decode(bytes) ==
    LET handle_ops == decode_handle_ops(bytes)
        deposit_to == decode_deposit_to(bytes) IN
    IF handle_ops.ok THEN handle_ops
    ELSE IF deposit_to.ok THEN deposit_to
    ELSE [ok |-> FALSE, err |-> "InvalidData"]

\* parse_from_input_data answering any call that decodes
parse_from_input_data_any_call(bytes) ==
    LET decoded == EntryPointAPICalls_decode(bytes) IN
    IF ~decoded.ok THEN None
    ELSE IF decoded.value.variant = "HandleOps"
    THEN Some([i \in 1..Len(decoded.value.ops) |-> from_entry_point_op(decoded.value.ops[i])])
    ELSE Some(<<>>)

\* parse_from_input_data
parse_from_input_data(bytes) ==
    LET decoded == EntryPointAPICalls_decode(bytes) IN
    IF ~decoded.ok THEN None
    ELSE IF decoded.value.variant = "HandleOps"
    THEN Some([i \in 1..Len(decoded.value.ops) |-> from_entry_point_op(decoded.value.ops[i])])
    ELSE None

-----------------------------------------------------------------------------
(* The Overhead calculator and the VerificationGas sanity check *)

\* Overhead::default(): the cost table (per operation, per zero byte, per other byte)
Overhead_default == [fixed |-> 21000, zero_byte |-> 4, non_zero_byte |-> 16]

ZeroCount(bytes) == Cardinality({i \in 1..Len(bytes) : bytes[i] = 0})

\* Overhead::calculate_pre_verification_gas: over every byte of uo.pack()
calculate_pre_verification_gas(overhead, op) ==
    LET packed == pack(op)
        zeros  == ZeroCount(packed)
    IN  overhead.fixed + zeros * overhead.zero_byte
            + (Len(packed) - zeros) * overhead.non_zero_byte

Ok == [ok |-> TRUE]

HighVerificationGasLimit(declared, max) ==
    [ok |-> FALSE, err |-> "HighVerificationGasLimit",
     verification_gas_limit |-> declared, max_verification_gas |-> max]

LowPreVerificationGas(declared, expected) ==
    [ok |-> FALSE, err |-> "LowPreVerificationGas",
     pre_verification_gas |-> declared, pre_verification_gas_expected |-> expected]

\* the check with the overhead test before the ceiling test
check_user_operation_overhead_first(self, op, hlp) ==
    LET pre_gas == calculate_pre_verification_gas(Overhead_default, op) IN
    [helper |-> hlp,
     result |->
        IF op.pre_verification_gas < pre_gas
        THEN LowPreVerificationGas(op.pre_verification_gas, pre_gas)
        ELSE IF op.verification_gas_limit > self.max_verification_gas
        THEN HighVerificationGasLimit(op.verification_gas_limit, self.max_verification_gas)
        ELSE Ok]

\* the check refusing a limit equal to the ceiling and a declaration equal to the
\* expected value
check_user_operation_strict(self, op, hlp) ==
    LET pre_gas == calculate_pre_verification_gas(Overhead_default, op) IN
    [helper |-> hlp,
     result |->
        IF op.verification_gas_limit >= self.max_verification_gas
        THEN HighVerificationGasLimit(op.verification_gas_limit, self.max_verification_gas)
        ELSE IF op.pre_verification_gas <= pre_gas
        THEN LowPreVerificationGas(op.pre_verification_gas, pre_gas)
        ELSE Ok]

\* the check asking the chain for the ceiling of the current block, and counting
\* the lookup in the helper
check_user_operation_reads_chain(self, op, hlp) ==
    LET pre_gas == calculate_pre_verification_gas(Overhead_default, op)
        ceiling == IF hlp.block = 0 THEN self.max_verification_gas ELSE 0 IN
    [helper |-> [hlp EXCEPT !.lookups = 1],
     result |->
        IF op.verification_gas_limit > ceiling
        THEN HighVerificationGasLimit(op.verification_gas_limit, ceiling)
        ELSE IF op.pre_verification_gas < pre_gas
        THEN LowPreVerificationGas(op.pre_verification_gas, pre_gas)
        ELSE Ok]

\* VerificationGas::check_user_operation(&self, uo, _helper): the Result, and the
\* helper as the call leaves it
check_user_operation(self, op, hlp) ==
    LET pre_gas == calculate_pre_verification_gas(Overhead_default, op) IN
    [helper |-> hlp,
     result |->
        IF op.verification_gas_limit > self.max_verification_gas
        THEN HighVerificationGasLimit(op.verification_gas_limit, self.max_verification_gas)
        ELSE IF op.pre_verification_gas < pre_gas
        THEN LowPreVerificationGas(op.pre_verification_gas, pre_gas)
        ELSE Ok]

-----------------------------------------------------------------------------
(* The operands the calls are made on *)

\* byte strings are up to MaxWords words long, give or take a byte
MaxWords == 1

\* byte strings are filled with the multiples of 0..MaxSeed (0: all zero bytes)
MaxSeed == 1

Lengths == {0, 1} \cup {WORD * w + d : w \in 1..MaxWords, d \in {-1, 0, 1}}

Pattern(len, seed) == [i \in 1..len |-> (seed * i) % 256]

ByteStrings == {Pattern(len, seed) : len \in Lengths, seed \in 0..MaxSeed}

\* scalars: zero, and a value whose four low bytes all differ
Scalars == {0, 16909060}

\* user_operations[0] of the tests
Fixture0 ==
    [sender |-> 0, nonce |-> 0, init_code |-> <<>>, call_data |-> <<>>,
     call_gas_limit |-> 0, verification_gas_limit |-> 100000,
     pre_verification_gas |-> 21000, max_fee_per_gas |-> 0,
     max_priority_fee_per_gas |-> 1000000000,
     paymaster_and_data |-> <<>>, signature |-> <<>>]

\* an operation none of whose fields is zero or empty, and no two fields alike
Sample1 ==
    [sender |-> 66051, nonce |-> 7, init_code |-> Pattern(WORD + 1, 3),
     call_data |-> Pattern(1, 5),
     call_gas_limit |-> 200000, verification_gas_limit |-> 100000,
     pre_verification_gas |-> 21000, max_fee_per_gas |-> 2000000000,
     max_priority_fee_per_gas |-> 1000000000,
     paymaster_and_data |-> Pattern(WORD, 7), signature |-> Pattern(2 * WORD + 1, 9)]

TypeOf(f) == FieldTypes[CHOOSE i \in 1..Len(FieldTypes) : FieldTypes[i].name = f].type

FieldValues(f) == IF TypeOf(f) = "bytes" THEN ByteStrings ELSE Scalars

\* base with one of its fields set to another value
VariantsOf(base) ==
    UNION {{[base EXCEPT ![f] = v] : v \in FieldValues(f)} : f \in FieldNames}

Ops == VariantsOf(Fixture0) \cup VariantsOf(Sample1)

\* op with another signature, of every length
SignatureVariants(op) ==
    {[op EXCEPT !.signature = Pattern(len, MaxSeed)] : len \in Lengths}

NoCall == [fn |-> "none"]
Unused == "unused"

-----------------------------------------------------------------------------
(* The codec: pack, pack_for_signature, Compress and Decompress *)

InitCodec ==
    /\ uo \in Ops
    /\ other \in SignatureVariants(uo)
    /\ env = Unused /\ env2 = Unused
    /\ max_verification_gas = Unused /\ helper = Unused
    /\ partial = Unused /\ call = Unused
    /\ data = <<>>
    /\ ret = NoCall /\ ret2 = NoCall

\* uo.pack() and other.pack()
Pack ==
    /\ ret' = [fn |-> "pack", value |-> pack(uo)]
    /\ ret2' = [fn |-> "pack", value |-> pack(other)]
    /\ UNCHANGED <<uo, other, env, env2, max_verification_gas, helper, partial, call, data>>

\* uo.pack_for_signature() and other.pack_for_signature()
PackForSignature ==
    /\ ret' = [fn |-> "pack_for_signature", value |-> pack_for_signature(uo)]
    /\ ret2' = [fn |-> "pack_for_signature", value |-> pack_for_signature(other)]
    /\ UNCHANGED <<uo, other, env, env2, max_verification_gas, helper, partial, call, data>>

\* uo.compress(): the bytes kept in the table
Compress ==
    /\ data' = compress(uo)
    /\ ret' = [fn |-> "compress", value |-> data']
    /\ ret2' = NoCall
    /\ UNCHANGED <<uo, other, env, env2, max_verification_gas, helper, partial, call>>

\* UserOperation::decompress of the bytes kept in the table
Decompress ==
    /\ ret.fn = "compress"
    /\ ret' = [fn |-> "decompress", value |-> decompress(data)]
    /\ ret2' = NoCall
    /\ UNCHANGED <<uo, other, env, env2, max_verification_gas, helper, partial, call, data>>

NextCodec == Pack \/ PackForSignature \/ Compress \/ Decompress

SpecCodec == InitCodec /\ [][NextCodec]_vars

-----------------------------------------------------------------------------
(* Claims about the codec, checked under SpecCodec *)

EqualExceptSignature(a, b) == \A f \in FieldNames \ {"signature"} : a[f] = b[f]

\* C4: two operations that differ in nothing but their signature (of any length,
\* empty included) have the same pack_for_signature bytes.
C4_SignatureIndependence ==
    (ret.fn = "pack_for_signature" /\ EqualExceptSignature(uo, other))
        => ret.value = ret2.value

\* C4 witness: pack_for_signature was called on two operations with different
\* signatures, one of them empty and one longer than a word.
C4_Witness ==
    /\ ret.fn = "pack_for_signature"
    /\ EqualExceptSignature(uo, other)
    /\ Len(uo.signature) > WORD
    /\ other.signature = <<>>
    /\ ret.value = ret2.value

DropLastWord(bytes) == SubSeq(bytes, 1, Len(bytes) - WORD)

LastWord(bytes) == SubSeq(bytes, Len(bytes) - WORD + 1, Len(bytes))

\* the head slot of the signature: the last of the eleven
SignatureSlot(bytes) == Peek(bytes, WORD * (Len(FieldTypes) - 1), WORD)

\* C5: pack_for_signature(op) is pack(op') without its last 32 bytes, where op' is
\* op with an empty signature; the 32 bytes removed are the all-zero length word of
\* the empty signature (the word the signature's offset points at); and for an op
\* with an empty signature the result is pack(op) without its last word.
C5_PackForSignatureIsPackMinusWord ==
    ret.fn = "pack_for_signature" =>
        LET full == pack([uo EXCEPT !.signature = <<>>]) IN
        /\ Len(full) >= WORD
        /\ ret.value = DropLastWord(full)
        /\ Len(ret.value) = Len(full) - WORD
        /\ LastWord(full) = Zeros(WORD)
        /\ FromBE(SignatureSlot(full)) = Len(full) - WORD
        /\ uo.signature = <<>> => ret.value = DropLastWord(pack(uo))

\* C5 witness: pack_for_signature was called on an operation with a signature and
\* variable-length fields that are not empty.
C5_Witness ==
    /\ ret.fn = "pack_for_signature"
    /\ uo.signature # <<>>
    /\ uo.init_code # <<>>
    /\ Len(ret.value) = Len(pack(uo)) - Len(encode_bytes(uo.signature))

\* C6: decompressing what compress produced succeeds and gives the operation back,
\* equal in all eleven fields.
C6_RoundTrip ==
    ret.fn = "decompress" => ret.value = [ok |-> TRUE, value |-> uo]

\* C6 witness: an operation with empty and non-empty variable-length fields went
\* through compress and decompress.
C6_Witness ==
    /\ ret.fn = "decompress"
    /\ ret.value.ok
    /\ uo.call_data = <<>>
    /\ Len(uo.init_code) > WORD
    /\ uo.signature # <<>>
    /\ \A f \in FieldNames : ret.value.value[f] = uo[f]

-----------------------------------------------------------------------------
(* The VerificationGas check, called while the chain moves on *)

\* the chain is at block 0..MaxBlock
MaxBlock == 1

\* declared pre-verification gas is within MaxDelta of the expected value, or 0
MaxDelta == 1

Helpers == {[block |-> b, lookups |-> 0] : b \in 0..MaxBlock}

\* the configured ceilings: none, the fixtures' limit, the default of a partial
MaxGasValues == {0, 100000, 10000000}

\* a pre_verification_gas that the calculator, run on the operation declaring it,
\* expects
ExpectedFor(op) ==
    LET e0 == calculate_pre_verification_gas(Overhead_default, [op EXCEPT !.pre_verification_gas = 0])
        e1 == calculate_pre_verification_gas(Overhead_default, [op EXCEPT !.pre_verification_gas = e0])
    IN  calculate_pre_verification_gas(Overhead_default, [op EXCEPT !.pre_verification_gas = e1])

Near(n, delta) == {m \in (n - delta)..(n + delta) : m >= 0}

\* op declaring nothing, or about what the calculator expects of it
DeclaringNear(op) ==
    {[op EXCEPT !.pre_verification_gas = p] :
        p \in {0} \cup Near(ExpectedFor(op), MaxDelta)}

\* operations with a limit just below, at and just above the ceiling
GasOps(max) ==
    UNION {DeclaringNear([base EXCEPT !.verification_gas_limit = v]) :
                base \in {Fixture0, Sample1}, v \in Near(max, 1)}

InitGas ==
    /\ max_verification_gas \in MaxGasValues
    /\ uo \in GasOps(max_verification_gas)
    /\ helper \in Helpers
    /\ other = Unused /\ env = Unused /\ env2 = Unused
    /\ partial = Unused /\ call = Unused /\ data = <<>>
    /\ ret = NoCall /\ ret2 = NoCall

\* one call of check_user_operation; ret2 keeps the call before it
CheckUserOperation ==
    LET r == check_user_operation([max_verification_gas |-> max_verification_gas],
                                  uo, helper) IN
    /\ helper' = r.helper
    /\ UNCHANGED <<uo, max_verification_gas>>
    /\ ret' = [fn |-> "check_user_operation", value |-> r.result,
               before |-> <<uo, max_verification_gas, helper>>,
               after |-> <<uo', max_verification_gas', helper'>>]
    /\ ret2' = ret
    /\ UNCHANGED <<other, env, env2, partial, call, data>>

\* a block is mined between two calls: the chain state behind the helper changes
ChainAdvance ==
    /\ helper.block < MaxBlock
    /\ helper' = [helper EXCEPT !.block = helper.block + 1]
    /\ UNCHANGED <<uo, other, env, env2, max_verification_gas, partial, call, data, ret, ret2>>

NextGas == CheckUserOperation \/ ChainAdvance

SpecGas == InitGas /\ [][NextGas]_vars

Called == ret.fn = "check_user_operation"

Expected == calculate_pre_verification_gas(Overhead_default, uo)

\* C1: an operation whose verification_gas_limit is above the ceiling is refused
\* with HighVerificationGasLimit carrying the declared limit and the ceiling,
\* whatever its pre_verification_gas.
C1_HighVerificationGasLimitFirst ==
    (Called /\ uo.verification_gas_limit > max_verification_gas)
        => ret.value = HighVerificationGasLimit(uo.verification_gas_limit,
                                                  max_verification_gas)

\* C1 witness: an operation that breaks both bounds was checked and reported as
\* HighVerificationGasLimit.
C1_Witness ==
    /\ Called
    /\ uo.verification_gas_limit > max_verification_gas
    /\ uo.pre_verification_gas < Expected
    /\ ret.value.err = "HighVerificationGasLimit"

\* C2: an operation whose verification_gas_limit is at or below the ceiling is
\* refused with LowPreVerificationGas(declared, expected) exactly when its
\* pre_verification_gas is below the expected value, and accepted otherwise.
C2_LowPreVerificationGasOrOk ==
    (Called /\ uo.verification_gas_limit <= max_verification_gas)
        => ret.value = IF uo.pre_verification_gas < Expected
                       THEN LowPreVerificationGas(uo.pre_verification_gas, Expected)
                       ELSE Ok

\* C2 witness: an operation at the ceiling, declaring exactly the expected
\* pre-verification gas, was accepted.
C2_Witness ==
    /\ Called
    /\ uo.verification_gas_limit = max_verification_gas
    /\ uo.pre_verification_gas = Expected
    /\ ret.value = Ok

\* C3: a call leaves the operation, the ceiling and the helper as they were, and two
\* calls (same operation, same ceiling) return the same result whatever the chain
\* state is at each.
C3_NoSideEffectsNoChainState ==
    /\ Called => ret.after = ret.before
    /\ (Called /\ ret2.fn = "check_user_operation") => ret2.value = ret.value

\* C3 witness: the check was called at two different chain states.
C3_Witness ==
    /\ Called /\ ret2.fn = "check_user_operation"
    /\ ret.before[3] # ret2.before[3]
    /\ ret.before[1] = ret2.before[1] /\ ret.before[2] = ret2.before[2]
    /\ ret.value = ret2.value

-----------------------------------------------------------------------------
(* The identifier: hash called on two operations, each with its entry point and
   chain id *)

\* byte strings that differ in length only by a trailing zero, and a long one
HashByteStrings == {<<1>>, <<1, 0>>, Pattern(WORD * MaxWords + 1, MaxSeed)}

HashFieldValues(f) == IF TypeOf(f) = "bytes" THEN HashByteStrings ELSE {16909060}

\* the fixture, and the fixture with one field set to another value
HashOps ==
    {Fixture0} \cup
    UNION {{[Fixture0 EXCEPT ![f] = v] : v \in HashFieldValues(f)} : f \in FieldNames}

\* entry points and chain ids of one and of two bytes
Envs == [entry_point : {1, 257}, chain_id : {1, 257}]

InitHash ==
    /\ uo \in HashOps
    /\ other \in HashOps
    /\ env \in Envs
    /\ env2 \in Envs
    /\ max_verification_gas = Unused /\ helper = Unused
    /\ partial = Unused /\ call = Unused /\ data = <<>>
    /\ ret = NoCall /\ ret2 = NoCall

\* uo.hash(&entry_point, &chain_id) and other.hash(&entry_point2, &chain_id2)
Hash ==
    /\ ret.fn = "none"
    /\ ret' = [fn |-> "hash", value |-> hash(uo, env.entry_point, env.chain_id)]
    /\ ret2' = [fn |-> "hash", value |-> hash(other, env2.entry_point, env2.chain_id)]
    /\ UNCHANGED <<uo, other, env, env2, max_verification_gas, helper, partial, call, data>>

NextHash == Hash

SpecHash == InitHash /\ [][NextHash]_vars

Hashed == ret.fn = "hash" /\ ret2.fn = "hash"

\* C7 as claimed: the identifiers differ whenever the operations differ in any
\* field, or the entry points differ, or the chain ids differ.
C7_AnyDifferenceChangesHash ==
    (Hashed /\ (uo # other \/ env # env2)) => ret.value # ret2.value

\* C7, amended: identical inputs give the same identifier; the identifiers differ
\* whenever the entry points differ, the chain ids differ, or the operations differ
\* in a field other than signature; operations that differ in signature only get
\* the same identifier (with the same entry point and chain id).
C7_HashDeterminism ==
    Hashed =>
        /\ (uo = other /\ env = env2) => ret.value = ret2.value
        /\ (~EqualExceptSignature(uo, other) \/ env # env2) => ret.value # ret2.value
        /\ (EqualExceptSignature(uo, other) /\ env = env2) => ret.value = ret2.value

\* C7 witness: hash was called on operations that differ only in the length of a
\* byte string that ends in a zero byte, with the same entry point and chain id.
C7_Witness ==
    /\ Hashed
    /\ env = env2
    /\ uo.call_data = <<1>> /\ other.call_data = <<1, 0>>
    /\ ret.value # ret2.value

\* C8: the identifier is H(H(pack_for_signature(op)) ++ word(entry_point) ++
\* word(chain_id)): the inner digest first, then the address and the chain id as one
\* 32-byte word each; so one operation hashed for two different (entry point, chain
\* id) pairs gets two different identifiers.
C8_DomainSeparation ==
    Hashed =>
        LET preimage == ret.value.keccak IN
        /\ Len(preimage) = 1 + 2 * WORD
        /\ preimage[1] = keccak256(pack_for_signature(uo))
        /\ FromBE(SubSeq(preimage, 2, 1 + WORD)) = env.entry_point
        /\ FromBE(SubSeq(preimage, 2 + WORD, 1 + 2 * WORD)) = env.chain_id
        /\ (uo = other /\ env # env2) => ret.value # ret2.value

\* C8 witness: one operation was hashed for an entry point and a chain id, and for
\* the pair whose concatenated shortest encodings would be the same bytes.
C8_Witness ==
    /\ Hashed
    /\ uo = other
    /\ Unpadded(env.entry_point) \o Unpadded(env.chain_id)
          = Unpadded(env2.entry_point) \o Unpadded(env2.chain_id)
    /\ env # env2
    /\ ret.value # ret2.value

-----------------------------------------------------------------------------
(* The conversion of a UserOperationPartial *)

\* an optional field: absent, present and zero or empty, present and not
Optional(zero, value) == {None, Some(zero), Some(value)}

OptionalBytes == Optional(<<>>, Pattern(MaxWords + 1, MaxSeed))

OptionalScalar == Optional(0, 16909060)

Partials ==
    [sender : {66051}, nonce : {0, 7},
     init_code : OptionalBytes, call_data : OptionalBytes,
     call_gas_limit : OptionalScalar, verification_gas_limit : OptionalScalar,
     pre_verification_gas : OptionalScalar, max_fee_per_gas : OptionalScalar,
     max_priority_fee_per_gas : OptionalScalar,
     paymaster_and_data : OptionalBytes, signature : OptionalBytes]

InitPartial ==
    /\ partial \in Partials
    /\ call = Unused
    /\ uo = Unused /\ other = Unused /\ env = Unused /\ env2 = Unused
    /\ max_verification_gas = Unused /\ helper = Unused
    /\ data = <<>>
    /\ ret = NoCall /\ ret2 = NoCall

\* UserOperation::from(partial)
FromPartial ==
    /\ ret.fn = "none"
    /\ ret' = [fn |-> "from", value |-> from_partial(partial)]
    /\ UNCHANGED <<uo, other, env, env2, max_verification_gas, helper, partial, call, data, ret2>>

NextPartial == FromPartial

SpecPartial == InitPartial /\ [][NextPartial]_vars

BytesFields == {f \in FieldNames : TypeOf(f) = "bytes"}

\* C9: sender and nonce are copied; a field that is present is passed through, zero
\* and empty values included; an absent init_code, call_data or paymaster_and_data
\* becomes empty; an absent call_gas_limit, pre_verification_gas, max_fee_per_gas or
\* max_priority_fee_per_gas becomes 0; an absent verification_gas_limit becomes
\* 10,000,000; an absent signature becomes 65 bytes of value 1.
C9_PartialDefaults ==
    ret.fn = "from" =>
        /\ DOMAIN ret.value = FieldNames
        /\ ret.value.sender = partial.sender
        /\ ret.value.nonce = partial.nonce
        /\ \A f \in FieldNames \ {"sender", "nonce"} :
              partial[f].some => ret.value[f] = partial[f].value
        /\ \A f \in {"init_code", "call_data", "paymaster_and_data"} :
              ~partial[f].some => ret.value[f] = <<>>
        /\ \A f \in {"call_gas_limit", "pre_verification_gas", "max_fee_per_gas",
                     "max_priority_fee_per_gas"} :
              ~partial[f].some => ret.value[f] = 0
        /\ ~partial.verification_gas_limit.some
              => ret.value.verification_gas_limit = 10000000
        /\ ~partial.signature.some
              => /\ Len(ret.value.signature) = 65
                 /\ \A i \in 1..65 : ret.value.signature[i] = 1

\* C9 witness: a partial with an absent signature and verification_gas_limit, a
\* present zero pre_verification_gas and a present empty init_code was converted.
C9_Witness ==
    /\ ret.fn = "from"
    /\ ~partial.signature.some
    /\ ~partial.verification_gas_limit.some
    /\ partial.pre_verification_gas = Some(0)
    /\ partial.init_code = Some(<<>>)
    /\ partial.call_data = None
    /\ ret.value.verification_gas_limit = 10000000
    /\ Len(ret.value.signature) = 65

-----------------------------------------------------------------------------
(* parse_from_input_data on the input of transactions sent to the entry point *)

\* a batch holds up to MaxOps operations
MaxOps == 2

RECURSIVE EncodedBefore(_, _)
\* the length of the encodings of ops 1..i-1
EncodedBefore(ops, i) ==
    IF i <= 1 THEN 0 ELSE EncodedBefore(ops, i - 1) + Len(encode(ops[i - 1]))

\* what a caller of handleOps(ops, beneficiary) sends: the selector, the offset of
\* the array, the beneficiary, the array's length, the offsets of its elements, and
\* the elements
encode_handle_ops(ops, beneficiary) ==
    HANDLE_OPS_SELECTOR
        \o encode_u256(2 * WORD)
        \o encode_address(beneficiary)
        \o encode_u256(Len(ops))
        \o Concat([i \in 1..Len(ops) |-> encode_u256(WORD * Len(ops) + EncodedBefore(ops, i))])
        \o Concat([i \in 1..Len(ops) |-> encode(ops[i])])

\* what a caller of depositTo(account) sends
encode_deposit_to(account) == DEPOSIT_TO_SELECTOR \o encode_address(account)

Batches == UNION {[1..n -> {Fixture0, Sample1}] : n \in 0..MaxOps}

Calls ==
    {[variant |-> "HandleOps", ops |-> ops, beneficiary |-> 66051] : ops \in Batches}
        \cup {[variant |-> "DepositTo", account |-> 66051]}

Wire(c) ==
    IF c.variant = "HandleOps" THEN encode_handle_ops(c.ops, c.beneficiary)
    ELSE encode_deposit_to(c.account)

\* the input whole, cut short, and with a selector the entry point does not have
Inputs(c) ==
    LET wire == Wire(c) IN
    {SubSeq(wire, 1, k) :
        k \in {0, SELECTOR_BYTES - 1, SELECTOR_BYTES, SELECTOR_BYTES + WORD,
               Len(wire) \div 2, Len(wire) - WORD, Len(wire) - 1, Len(wire)}}
        \cup {<<0, 0, 0, 0>> \o Drop(wire, SELECTOR_BYTES)}

InitParse ==
    /\ call \in Calls
    /\ data \in Inputs(call)
    /\ uo = Unused /\ other = Unused /\ env = Unused /\ env2 = Unused
    /\ max_verification_gas = Unused /\ helper = Unused /\ partial = Unused
    /\ ret = NoCall /\ ret2 = NoCall

\* parse_from_input_data(data)
ParseFromInputData ==
    /\ ret.fn = "none"
    /\ ret' = [fn |-> "parse_from_input_data", value |-> parse_from_input_data(data)]
    /\ UNCHANGED <<uo, other, env, env2, max_verification_gas, helper, partial, call, data, ret2>>

NextParse == ParseFromInputData

SpecParse == InitParse /\ [][NextParse]_vars

Parsed == ret.fn = "parse_from_input_data"

\* C10: input that decodes as a handleOps call gives Some(list), the list holding the
\* embedded operations field for field, as many and in the order encoded (so the
\* whole input of a handleOps call gives back the operations it was made with);
\* input that decodes as another call, or does not decode, gives None; the result is
\* never an error.
C10_ParseFromInputData ==
    Parsed =>
        LET decoded == EntryPointAPICalls_decode(data) IN
        /\ ret.value.some \in BOOLEAN
        /\ (decoded.ok /\ decoded.value.variant = "HandleOps")
              => /\ ret.value.some
                 /\ Len(ret.value.value) = Len(decoded.value.ops)
                 /\ \A i \in 1..Len(decoded.value.ops) : \A f \in FieldNames :
                        ret.value.value[i][f] = decoded.value.ops[i][f]
        /\ (decoded.ok /\ decoded.value.variant # "HandleOps") => ret.value = None
        /\ ~decoded.ok => ret.value = None
        /\ (call.variant = "HandleOps" /\ data = Wire(call)) => ret.value = Some(call.ops)
        /\ (call.variant # "HandleOps" /\ data = Wire(call)) => ret.value = None
        /\ Len(data) < SELECTOR_BYTES => ret.value = None

\* C10 witness: the input of a handleOps call with two different operations was
\* parsed and gave them back in order.
C10_Witness ==
    /\ Parsed
    /\ call.variant = "HandleOps"
    /\ data = Wire(call)
    /\ Len(call.ops) = 2
    /\ call.ops[1] # call.ops[2]
    /\ ret.value = Some(call.ops)

-----------------------------------------------------------------------------
(* The Overhead calculator on an operation and on the same operation with bytes
   appended to one of its byte strings *)

\* a byte string is up to MaxPages * 256 bytes long: at 256 bytes and at each
\* multiple of it the length word carries into its next byte
MaxPages == 2

\* appended bytes all have one value, 0..MaxFill
MaxFill == 1

OverheadLengths ==
    {0, 1, WORD - 1, WORD, WORD + 1}
        \cup {Pow256[2] * p + d : p \in 1..MaxPages, d \in {-1, 0}}

VariableLengthFields == {"init_code", "call_data", "paymaster_and_data", "signature"}

\* base with len bytes of the pattern in field f
WithField(base, f, len, seed) == [base EXCEPT ![f] = Pattern(len, seed)]

\* op with bytes of value fill appended to field f, up to len bytes
Appended(op, f, len, fill) ==
    [op EXCEPT ![f] = [i \in 1..len |-> IF i <= Len(op[f]) THEN op[f][i] ELSE fill]]

\* the field in which other is uo with bytes appended, their other fields being equal
AppendedField ==
    CHOOSE f \in VariableLengthFields :
        /\ Len(other[f]) > Len(uo[f])
        /\ SubSeq(other[f], 1, Len(uo[f])) = uo[f]
        /\ \A g \in FieldNames \ {f} : other[g] = uo[g]

InitOverhead ==
    /\ \E base \in {Fixture0, Sample1}, f \in VariableLengthFields,
          len \in OverheadLengths, seed \in 0..1 :
            /\ uo = WithField(base, f, len, seed)
            /\ \E longer \in {l \in OverheadLengths : l > len}, fill \in 0..MaxFill :
                    other = Appended(uo, f, longer, fill)
    /\ env = Unused /\ env2 = Unused
    /\ max_verification_gas = Unused /\ helper = Unused /\ partial = Unused
    /\ call = Unused /\ data = <<>>
    /\ ret = NoCall /\ ret2 = NoCall

\* Overhead::default().calculate_pre_verification_gas on uo and on other
CalculatePreVerificationGas ==
    /\ ret.fn = "none"
    /\ ret' = [fn |-> "calculate_pre_verification_gas",
               value |-> calculate_pre_verification_gas(Overhead_default, uo)]
    /\ ret2' = [fn |-> "calculate_pre_verification_gas",
                value |-> calculate_pre_verification_gas(Overhead_default, other)]
    /\ UNCHANGED <<uo, other, env, env2, max_verification_gas, helper, partial, call, data>>

NextOverhead == CalculatePreVerificationGas

SpecOverhead == InitOverhead /\ [][NextOverhead]_vars

Calculated == ret.fn = "calculate_pre_verification_gas"

\* the bytes a byte string takes in the tail after its length word
PaddedLen(b) == Len(b) + PadLen(Len(b))

\* C11 as claimed: appending bytes to one variable-length field never lowers the
\* expected pre-verification gas, pre_gas(op') >= pre_gas(op).
C11_MonotonicOverhead ==
    Calculated => ret2.value >= ret.value

\* C11: appending bytes to one variable-length field never shortens the encoding,
\* and when the appended bytes take the field into a new word the expected
\* pre-verification gas rises; when the padding takes the appended bytes in, the gas
\* moves by the difference of the two byte costs for every byte that changes between
\* zero and not zero, up or down.
C11_MonotonicWhenFieldGainsAWord ==
    Calculated =>
        LET f == AppendedField
            zeros  == ZeroCount(pack(uo))
            zeros2 == ZeroCount(pack(other))
        IN  /\ Len(pack(other)) >= Len(pack(uo))
            /\ PaddedLen(other[f]) > PaddedLen(uo[f]) => ret2.value > ret.value
            /\ PaddedLen(other[f]) = PaddedLen(uo[f])
                  => /\ Len(pack(other)) = Len(pack(uo))
                     /\ ret2.value - ret.value =
                            (zeros - zeros2)
                                * (Overhead_default.non_zero_byte - Overhead_default.zero_byte)

\* C11 witness: the calculator ran on an operation with call_data and on the same
\* operation with bytes appended to its call_data that go into a new word, and
\* expected more gas of the second.
C11_Witness ==
    /\ Calculated
    /\ Len(other.call_data) > Len(uo.call_data)
    /\ PaddedLen(other.call_data) > PaddedLen(uo.call_data)
    /\ Len(uo.call_data) > 0
    /\ ret2.value > ret.value

-----------------------------------------------------------------------------
(* The core operations on operations and on bytes read from a table or from a
   transaction *)

\* bytes with the word at slot (from 0) replaced
WithWord(bytes, slot, word) ==
    [i \in 1..Len(bytes) |->
        IF i > WORD * slot /\ i <= WORD * (slot + 1) THEN word[i - WORD * slot] ELSE bytes[i]]

\* the head slot (from 0) of the first byte string of a UserOperation: init_code
FirstOffsetSlot == CHOOSE i \in 0..(Len(FieldTypes) - 1) :
                      /\ FieldTypes[i + 1].type = "bytes"
                      /\ \A j \in 1..i : FieldTypes[j].type # "bytes"

\* bytes a table or a transaction can hold: short strings around the width of a
\* hash; the encoding of an operation whole, cut short, with bytes after it, with an
\* offset past its end and with an offset that is no usize; the input of a handleOps
\* call whole and cut short
CoreInputs(op) ==
    LET packed == pack(op)
        wire == encode_handle_ops(<<op>>, op.sender)
    IN  ByteStrings
          \cup {Zeros(2 * H256_BYTES)}
          \cup {SubSeq(packed, 1, k) :
                    k \in {WORD * Len(FieldTypes) - 1, WORD * Len(FieldTypes),
                           Len(packed) - WORD, Len(packed) - 1, Len(packed)}}
          \cup {packed \o <<0>>, packed \o Pattern(WORD, MaxSeed)}
          \cup {WithWord(packed, FirstOffsetSlot, encode_u256(Len(packed))),
                WithWord(packed, FirstOffsetSlot, [i \in 1..WORD |-> 255])}
          \cup {SubSeq(wire, 1, k) : k \in {SELECTOR_BYTES, Len(wire) - 1, Len(wire)}}

CoreOps == {Fixture0, Sample1, [Sample1 EXCEPT !.signature = <<>>]}

InitCore ==
    /\ uo \in CoreOps
    /\ other = uo
    /\ env \in Envs
    /\ env2 = env
    /\ data \in CoreInputs(uo)
    /\ max_verification_gas = Unused /\ helper = Unused
    /\ partial = Unused /\ call = Unused
    /\ ret = NoCall /\ ret2 = NoCall

\* UserOperation::decompress(data)
DecompressInput ==
    /\ ret.fn = "none"
    /\ ret' = [fn |-> "decompress", value |-> decompress(data)]
    /\ UNCHANGED <<uo, other, env, env2, max_verification_gas, helper, partial, call, data, ret2>>

\* UserOperationHash::decode(data)
DecodeHash ==
    /\ ret.fn = "none"
    /\ ret' = [fn |-> "UserOperationHash::decode", value |-> UserOperationHash_decode(data)]
    /\ UNCHANGED <<uo, other, env, env2, max_verification_gas, helper, partial, call, data, ret2>>

NextCore ==
    \/ Pack
    \/ PackForSignature
    \/ Hash
    \/ DecompressInput
    \/ DecodeHash
    \/ ParseFromInputData

SpecCore == InitCore /\ [][NextCore]_vars

IsByteString(b) == \A i \in 1..Len(b) : b[i] \in 0..255

\* C12 as claimed: every core operation ends with a value or an error value and
\* never aborts: pack and pack_for_signature give bytes and the length subtraction
\* of pack_for_signature does not underflow, hash gives an identifier, decompress
\* and UserOperationHash::decode give Ok or Err on bytes of any length, and
\* parse_from_input_data gives Some or None.
C12_NoFatalConditions ==
    /\ ret.fn = "pack" => IsByteString(ret.value)
    /\ ret.fn = "pack_for_signature" =>
            /\ truncated_len(uo) >= 0
            /\ IsByteString(ret.value)
    /\ ret.fn = "hash" => ret.value = keccak256(ret.value.keccak)
    /\ ret.fn = "decompress" => ~IsPanic(ret.value) /\ ret.value.ok \in BOOLEAN
    /\ ret.fn = "UserOperationHash::decode" => ~IsPanic(ret.value) /\ ret.value.ok \in BOOLEAN
    /\ ret.fn = "parse_from_input_data" => ~IsPanic(ret.value) /\ ret.value.some \in BOOLEAN

====
